---------------------------- MODULE Spec2Model ----------------------------
(***************************************************************************)
(* A model of fptools: the path-addressed copy-on-write dictionary engine  *)
(* (fptools/dictionary.py), the generic mapping layer (ftools/mapping.py)   *)
(* and group_by (fptools/iterable.py).                                      *)
(*                                                                         *)
(* Python objects live in a heap (a sequence of objects, the address of an *)
(* object being its index), so that identity, allocation and mutation are  *)
(* observable.  A Python value is a tagged record: None, an int, a str, a  *)
(* reference to a heap object, or the outcome "an exception of this kind   *)
(* was raised".                                                            *)
(***************************************************************************)
EXTENDS Integers, Sequences, FiniteSets, TLC

VARIABLES heap,    \* the Python heap: heap[a] is the object at address a
          root,    \* the mapping the caller holds (a reference)
          snap,    \* the content of root when the caller built it
          call1,   \* the first library call made and its outcome
          call2,   \* the call made on the result of the first, if any
          iterable, \* group_by: the iterable, as a sequence
          keyOf,   \* group_by: the predicate, as a function of the item
          pos,     \* group_by: the position of reduce in the iterable
          groups,  \* group_by: the accumulator of reduce
          past     \* group_by: the accumulators so far, with their contents

cvars == <<root, snap, call1, call2>>
gvars == <<iterable, keyOf, pos, groups, past>>
vars == <<heap, cvars, gvars>>

---------------------------------------------------------------------------
(* Bounds *)

MaxPathLen == 2      \* longest key sequence given as a path
MaxEntries == 3      \* entries of the caller's mapping, nested ones included
MaxItems == 2        \* longest sequence of keys given to pick, omit and extract
MaxLen == 3          \* longest iterable given to group_by

---------------------------------------------------------------------------
(* Python values *)

None == [t |-> "none"]
PyInt(n) == [t |-> "int", n |-> n]
PyStr(s) == [t |-> "str", s |-> s]
Ref(a) == [t |-> "ref", a |-> a]
Raised(kind) == [t |-> "err", kind |-> kind]

IsErr(v) == v.t = "err"
IsRef(v) == v.t = "ref"

\* the classes whose instances are mappings (they have get, keys, items)
MappingClasses == {"dict", "OrderedDict", "Record", "Locked"}

\* A mapping object has a class, its entries and the order its keys were
\* inserted in (the order it is iterated in); a list has its elements.
EmptyEnt == [k \in {} |-> None]
EmptyObj(cls) == [cls |-> cls, ent |-> EmptyEnt, ord |-> <<>>]
List(el) == [cls |-> "list", el |-> el]

IsMapping(v, h) == IsRef(v) /\ h[v.a].cls \in MappingClasses
IsList(v, h) == IsRef(v) /\ h[v.a].cls = "list"
Ent(v, h) == h[v.a].ent

\* bool(v): None, 0, "" and empty containers are falsy
Truthy(v, h) ==
    CASE v.t = "none" -> FALSE
      [] v.t = "int" -> v.n # 0
      [] v.t = "str" -> v.s # ""
      [] v.t = "ref" -> IF h[v.a].cls = "list" THEN Len(h[v.a].el) > 0
                        ELSE DOMAIN h[v.a].ent # {}

\* the result of a call: the heap it leaves and the value it returns (or
\* the exception it raises)
Result(h, v) == [heap |-> h, val |-> v]

\* allocation of a new object: the next free address
Alloc(h, obj) == Result(Append(h, obj), Ref(Len(h) + 1))

Merge(ent, k, v) == [x \in DOMAIN ent \cup {k} |-> IF x = k THEN v ELSE ent[x]]
Without(ent, k) == [x \in DOMAIN ent \ {k} |-> ent[x]]

\* obj[k] = v: a new key goes last, a key already there keeps its place
SetKey(obj, k, v) ==
    [obj EXCEPT !.ent = Merge(@, k, v),
                !.ord = IF k \in DOMAIN obj.ent THEN @ ELSE Append(@, k)]

\* del obj[k], for a key that is there
DelKey(obj, k) ==
    [obj EXCEPT !.ent = Without(@, k),
                !.ord = SelectSeq(@, LAMBDA x : x # k)]

\* {**obj}: a new plain dict with the entries of a mapping, in its order
DictOf(obj) == [cls |-> "dict", ent |-> obj.ent, ord |-> obj.ord]

\* mapping.get(k): the value, or None when the key is absent
Get(v, k, h) == IF k \in DOMAIN Ent(v, h) THEN Ent(v, h)[k] ELSE None

\* The content of a value, as Python's == compares it: a scalar is itself,
\* a mapping is its entries' contents (whatever the order), a list is its
\* elements' contents.
RECURSIVE Deep(_, _)
Deep(v, h) ==
    IF ~IsRef(v) THEN v
    ELSE IF h[v.a].cls = "list"
         THEN [t |-> "list", el |-> [i \in 1..Len(h[v.a].el) |-> Deep(h[v.a].el[i], h)]]
         ELSE [t |-> "dict", ent |-> [k \in DOMAIN h[v.a].ent |-> Deep(h[v.a].ent[k], h)]]

---------------------------------------------------------------------------
(* fptools/dictionary.py *)

\* A path argument is a key (a str or an int) or a sequence of keys.
PySeq(ks) == [t |-> "seq", ks |-> ks]

to_path(path) ==
    IF path.t \in {"str", "int"} THEN PySeq(<<path>>)
    ELSE IF path.t = "seq" THEN path
    ELSE Raised("NotImplementedError")

\* acc.get(item) without the guard "if acc is not None"
GetStepNoGuard(acc, item, h) ==
    IF IsErr(acc) THEN acc
    ELSE IF IsMapping(acc, h) THEN Get(acc, item, h)
    ELSE Raised("AttributeError")

\* one step of getitem's reduce: acc.get(item) if acc is not None else None
\* (a value that is neither None nor a mapping has no get); an exception
\* raised by an earlier step ends the reduce
GetStep(acc, item, h) ==
    IF IsErr(acc) THEN acc
    ELSE IF acc = None THEN None
    ELSE IF IsMapping(acc, h) THEN Get(acc, item, h)
    ELSE Raised("AttributeError")

RECURSIVE Reduce(_, _, _)
Reduce(acc, ks, h) ==
    IF ks = <<>> THEN acc ELSE Reduce(GetStep(acc, Head(ks), h), Tail(ks), h)

getitem(path, d, h) ==
    LET p == to_path(path)
    IN IF IsErr(p) THEN p ELSE Reduce(d, p.ks, h)

RECURSIVE SetRec(_, _, _, _)

\* _dict[path[0]] = ... on the mapping given, in place of a new dict
SetRecInPlace(ks, value, d, h) ==
    IF ~IsMapping(d, h) THEN Result(h, Raised("TypeError"))
    ELSE IF ks = <<>> THEN Result(h, Raised("IndexError"))
    ELSE IF Len(ks) > 1
    THEN LET c == Get(d, ks[1], h)
             e == IF Truthy(c, h) THEN Result(h, c) ELSE Alloc(h, EmptyObj("dict"))
             r == SetRec(Tail(ks), value, e.val, e.heap)
         IN IF IsErr(r.val) THEN r
            ELSE Result([r.heap EXCEPT ![d.a] = SetKey(@, ks[1], r.val)], d)
    ELSE Result([h EXCEPT ![d.a] = SetKey(@, ks[1], value)], d)

\* the child always replaced by a new empty dict
SetRecNoMerge(ks, value, d, h) ==
    IF ~IsMapping(d, h) THEN Result(h, Raised("TypeError"))
    ELSE IF ks = <<>> THEN Result(h, Raised("IndexError"))
    ELSE IF Len(ks) > 1
    THEN LET e == Alloc(h, EmptyObj("dict"))
             r == SetRec(Tail(ks), value, e.val, e.heap)
         IN IF IsErr(r.val) THEN r
            ELSE Alloc(r.heap, SetKey(DictOf(h[d.a]), ks[1], r.val))
    ELSE Alloc(h, SetKey(DictOf(h[d.a]), ks[1], value))

\* setitem on an already normalised path (to_path returns path[1:] as it
\* is).  {**_dict, ...} raises TypeError when _dict is no mapping; a falsy
\* child is replaced by a new empty dict; the result is a new dict.
SetRec(ks, value, d, h) ==
    IF ~IsMapping(d, h) THEN Result(h, Raised("TypeError"))
    ELSE IF ks = <<>> THEN Result(h, Raised("IndexError"))
    ELSE IF Len(ks) > 1
    THEN LET c == Get(d, ks[1], h)
             e == IF Truthy(c, h) THEN Result(h, c) ELSE Alloc(h, EmptyObj("dict"))
             r == SetRec(Tail(ks), value, e.val, e.heap)
         IN IF IsErr(r.val) THEN r
            ELSE Alloc(r.heap, SetKey(DictOf(h[d.a]), ks[1], r.val))
    ELSE Alloc(h, SetKey(DictOf(h[d.a]), ks[1], value))

setitem(path, value, d, h) ==
    LET p == to_path(path)
    IN IF IsErr(p) THEN Result(h, p) ELSE SetRec(p.ks, value, d, h)

RECURSIVE DelRec(_, _, _)

\* new_dict.pop(path[0], None) in place of del new_dict[path[0]]
DelRecSilent(ks, d, h) ==
    IF ~IsMapping(d, h) THEN Result(h, Raised("TypeError"))
    ELSE IF Len(ks) > 1
    THEN LET r == DelRec(Tail(ks), Get(d, ks[1], h), h)
         IN IF IsErr(r.val) THEN r
            ELSE Alloc(r.heap, SetKey(DictOf(h[d.a]), ks[1], r.val))
    ELSE IF ks = <<>> THEN Result(h, Raised("IndexError"))
    ELSE Alloc(h, DelKey(DictOf(h[d.a]), ks[1]))

\* delitem on an already normalised path: KeyError when the last key is not
\* in the copy, TypeError when _dict is no mapping
DelRec(ks, d, h) ==
    IF ~IsMapping(d, h) THEN Result(h, Raised("TypeError"))
    ELSE IF Len(ks) > 1
    THEN LET r == DelRec(Tail(ks), Get(d, ks[1], h), h)
         IN IF IsErr(r.val) THEN r
            ELSE Alloc(r.heap, SetKey(DictOf(h[d.a]), ks[1], r.val))
    ELSE IF ks = <<>> THEN Result(h, Raised("IndexError"))
    ELSE IF ks[1] \notin DOMAIN Ent(d, h)
    THEN Result(Append(h, DictOf(h[d.a])), Raised("KeyError"))
    ELSE Alloc(h, DelKey(DictOf(h[d.a]), ks[1]))

delitem(path, d, h) ==
    LET p == to_path(path)
    IN IF IsErr(p) THEN Result(h, p) ELSE DelRec(p.ks, d, h)

\* The modifiers the callers pass: lambda v: v, lambda v: 1, and the one
\* of group_by, lambda group: (group or []) + [item], which makes a new
\* list and raises TypeError for a truthy group that is no list.
Identity == [fn |-> "identity"]
Const == [fn |-> "const"]
AddTo(item) == [fn |-> "add", item |-> item]

\* group.append(item) in place of (group or []) + [item]
ModifyInPlace(modifier, v, h) ==
    CASE modifier.fn = "identity" -> Result(h, v)
      [] modifier.fn = "const" -> Result(h, PyInt(1))
      [] modifier.fn = "add" ->
           IF ~Truthy(v, h) THEN Alloc(h, List(<<modifier.item>>))
           ELSE IF ~IsList(v, h) THEN Result(h, Raised("TypeError"))
           ELSE Result([h EXCEPT ![v.a].el = Append(@, modifier.item)], v)

Modify(modifier, v, h) ==
    CASE modifier.fn = "identity" -> Result(h, v)
      [] modifier.fn = "const" -> Result(h, PyInt(1))
      [] modifier.fn = "add" ->
           IF ~Truthy(v, h) THEN Alloc(h, List(<<modifier.item>>))
           ELSE IF ~IsList(v, h) THEN Result(h, Raised("TypeError"))
           ELSE Alloc(h, List(Append(h[v.a].el, modifier.item)))

\* the modifier applied to None in place of the value read
updateNoRead(path, modifier, d, h) ==
    LET m == Modify(modifier, None, h)
    IN IF IsErr(m.val) THEN m ELSE setitem(path, m.val, d, m.heap)

update(path, modifier, d, h) ==
    LET value == getitem(path, d, h)
    IN IF IsErr(value) THEN Result(h, value)
       ELSE LET m == Modify(modifier, value, h)
            IN IF IsErr(m.val) THEN m ELSE setitem(path, m.val, d, m.heap)

\* the elements of a sequence
Elems(items) == {items[i] : i \in 1..Len(items)}

\* {key: value for key, value in _dict.items() if key not in keys}
dictionary_omit(keys, d, h) ==
    Alloc(h, [cls |-> "dict",
              ent |-> [k \in DOMAIN Ent(d, h) \ Elems(keys) |-> Ent(d, h)[k]],
              ord |-> SelectSeq(h[d.a].ord, LAMBDA k : k \notin Elems(keys))])

---------------------------------------------------------------------------
(* The caller of dictionary.py: a nested dict, one call on it, and a second *)
(* call on the first call's result.                                         *)

Keys == {PyStr("a"), PyStr("b")}
Leaves == {None, PyInt(0), PyInt(1)}

\* the written values
Values == {None, PyInt(1)}

\* The contents of the nested dicts the caller may hold, by their size: the
\* number of entries in the dict and in the dicts inside it.
RECURSIVE EntsOfSize(_, _)
RECURSIVE ValsOfSize(_)
EntsOfSize(keys, n) ==
    IF keys = {} THEN (IF n = 0 THEN {EmptyEnt} ELSE {})
    ELSE LET k == CHOOSE x \in keys : TRUE
             rest == keys \ {k}
         IN EntsOfSize(rest, n)
            \cup UNION {{Merge(e, k, v) : e \in EntsOfSize(rest, n - 1 - m),
                                          v \in ValsOfSize(m)} : m \in 0..(n - 1)}
ValsOfSize(m) ==
    {[t |-> "dict", ent |-> e] : e \in EntsOfSize(Keys, m)}
    \cup (IF m = 0 THEN Leaves ELSE {})

Contents ==
    {[t |-> "dict", ent |-> e] : e \in UNION {EntsOfSize(Keys, n) : n \in 0..MaxEntries}}

\* building a content as objects: a dict display allocates its children
\* first, then itself
RECURSIVE Store(_, _)
RECURSIVE StoreEnt(_, _, _, _)
StoreEnt(ent, todo, acc, h) ==
    IF todo = {} THEN Result(h, acc)
    ELSE LET k == CHOOSE x \in todo : TRUE
             r == Store(ent[k], h)
         IN StoreEnt(ent, todo \ {k}, SetKey(acc, k, r.val), r.heap)
Store(c, h) ==
    IF c.t # "dict" THEN Result(h, c)
    ELSE LET r == StoreEnt(c.ent, DOMAIN c.ent, EmptyObj("dict"), h)
         IN Alloc(r.heap, r.val)

KeySeqs == UNION {[1..n -> Keys] : n \in 1..MaxPathLen}
PathArgs == Keys \cup {PySeq(ks) : ks \in KeySeqs}

NoCall == [op |-> "none"]
Call(op, path, value, arg, h, r) ==
    [op |-> op, path |-> path, value |-> value, arg |-> arg,
     pre |-> Len(h), out |-> r.val]

\* group_by is not running
NoGroupBy ==
    /\ iterable = <<>>
    /\ keyOf = <<>>
    /\ pos = 0
    /\ groups = None
    /\ past = <<>>

Init ==
    /\ NoGroupBy
    /\ \E c \in Contents :
         LET r == Store(c, <<>>)
         IN /\ heap = r.heap
            /\ root = r.val
            /\ snap = c
    /\ call1 = NoCall
    /\ call2 = NoCall

CallGetitem(p) ==
    /\ call1 = NoCall
    /\ call1' = Call("getitem", p, None, root, heap, Result(heap, getitem(p, root, heap)))
    /\ UNCHANGED <<heap, root, snap, call2, gvars>>

CallSetitem(p, v) ==
    /\ call1 = NoCall
    /\ LET r == setitem(p, v, root, heap)
       IN /\ heap' = r.heap
          /\ call1' = Call("setitem", p, v, root, heap, r)
    /\ UNCHANGED <<root, snap, call2, gvars>>

CallDelitem(p) ==
    /\ call1 = NoCall
    /\ LET r == delitem(p, root, heap)
       IN /\ heap' = r.heap
          /\ call1' = Call("delitem", p, None, root, heap, r)
    /\ UNCHANGED <<root, snap, call2, gvars>>

CallUpdate(p, f) ==
    /\ call1 = NoCall
    /\ LET r == update(p, f, root, heap)
       IN /\ heap' = r.heap
          /\ call1' = Call("update", p, f, root, heap, r)
    /\ UNCHANGED <<root, snap, call2, gvars>>

\* the caller passes the result of setitem on
Chained == call1 # NoCall /\ call1.op = "setitem" /\ ~IsErr(call1.out) /\ call2 = NoCall

\* getitem(P, setitem(P, V, M))
ReadBack ==
    /\ Chained
    /\ call2' = Call("getitem", call1.path, None, call1.out, heap,
                     Result(heap, getitem(call1.path, call1.out, heap)))
    /\ UNCHANGED <<heap, root, snap, call1, gvars>>

\* setitem(P1, V1, setitem(P2, V2, M))
ThenSetitem(p, v) ==
    /\ Chained
    /\ LET r == setitem(p, v, call1.out, heap)
       IN /\ heap' = r.heap
          /\ call2' = Call("setitem", p, v, call1.out, heap, r)
    /\ UNCHANGED <<root, snap, call1, gvars>>

\* delitem(P, setitem(P, V, M))
DeleteWritten ==
    /\ Chained
    /\ LET r == delitem(call1.path, call1.out, heap)
       IN /\ heap' = r.heap
          /\ call2' = Call("delitem", call1.path, None, call1.out, heap, r)
    /\ UNCHANGED <<root, snap, call1, gvars>>

Next ==
    \/ \E p \in PathArgs : CallGetitem(p)
    \/ \E p \in PathArgs, v \in Values : CallSetitem(p, v)
    \/ \E p \in PathArgs : CallDelitem(p)
    \/ \E p \in PathArgs, f \in {Identity, Const} : CallUpdate(p, f)
    \/ ReadBack
    \/ \E p \in PathArgs, v \in Values : ThenSetitem(p, v)
    \/ DeleteWritten

Spec == Init /\ [][Next]_vars

---------------------------------------------------------------------------
(* Properties of dictionary.py.  They are stated on contents (snap, and    *)
(* Deep of a result) and on the heap, not through the operators above.     *)

Absent == [t |-> "absent"]

\* the keys a path argument names
PathOf(p) == IF p.t = "seq" THEN p.ks ELSE <<p>>

Prefix(ks, n) == SubSeq(ks, 1, n)
IsPrefix(p, q) == Len(p) <= Len(q) /\ Prefix(q, Len(p)) = p
Disjoint(p, q) == ~IsPrefix(p, q) /\ ~IsPrefix(q, p)

\* what a content holds at a key sequence, Absent when a key is missing or
\* the walk meets a value that is no dict
RECURSIVE At(_, _)
At(c, ks) ==
    IF ks = <<>> THEN c
    ELSE IF c.t = "dict" /\ Head(ks) \in DOMAIN c.ent THEN At(c.ent[Head(ks)], Tail(ks))
    ELSE Absent

\* the same walk over objects
RECURSIVE ObjAt(_, _, _)
ObjAt(v, ks, h) ==
    IF ks = <<>> THEN v
    ELSE IF IsMapping(v, h) /\ Head(ks) \in DOMAIN Ent(v, h)
         THEN ObjAt(Ent(v, h)[Head(ks)], Tail(ks), h)
    ELSE Absent

FalsyContent(c) == c \in {Absent, None, PyInt(0), PyStr(""), [t |-> "dict", ent |-> EmptyEnt]}

\* no key before the last is mapped to a truthy value that is no mapping
Writable(c, ks) ==
    \A n \in 1..(Len(ks) - 1) : At(c, Prefix(ks, n)).t = "dict" \/ FalsyContent(At(c, Prefix(ks, n)))

\* no key before the last is mapped to a value other than None or a mapping
Walkable(c, ks) ==
    \A n \in 1..(Len(ks) - 1) : At(c, Prefix(ks, n)).t \in {"dict", "absent", "none"}

Wrote == call1.op = "setitem"
WrotePath == PathOf(call1.path)

\* C1: for every path P, value V and nested mapping M (also when
\* intermediate keys are absent, None or falsy), setitem(P, V, M) returns and
\* getitem(P, setitem(P, V, M)) equals V.
C1_GetAfterSet ==
    /\ Wrote => ~IsErr(call1.out)
    /\ Wrote /\ call2.op = "getitem" => Deep(call2.out, heap) = Deep(call1.value, heap)

\* where C1 fails: setitem(["a", "b"], 1, {"a": 1}) raises TypeError
C1_Raises ==
    /\ Wrote /\ call2 = NoCall
    /\ snap = [t |-> "dict", ent |-> [k \in {PyStr("a")} |-> PyInt(1)]]
    /\ WrotePath = <<PyStr("a"), PyStr("b")>>
    /\ call1.value = PyInt(1)
    /\ call1.out = Raised("TypeError")

\* where C1 holds: setitem raises (TypeError) exactly when an intermediate
\* key of P is mapped in M to a truthy value that is no mapping, and
\* everywhere else getitem(P, .) of its result equals V.
C1_GetAfterSetWritable ==
    /\ Wrote => (IsErr(call1.out) <=> ~Writable(snap, WrotePath))
    /\ Wrote /\ IsErr(call1.out) => call1.out = Raised("TypeError")
    /\ Wrote /\ call2.op = "getitem" => Deep(call2.out, heap) = Deep(call1.value, heap)

\* C2: setitem leaves its input as it was; in its result every mapping from
\* the root down to the parent of the written key is a new object, and
\* every child off the path is the very object (or value) of the input.
C2_CopyOnWrite ==
    Wrote =>
        /\ Deep(root, heap) = snap
        /\ ~IsErr(call1.out) =>
             \A n \in 0..(Len(WrotePath) - 1) :
                LET new == ObjAt(call1.out, Prefix(WrotePath, n), heap)
                    old == ObjAt(root, Prefix(WrotePath, n), heap)
                    key == WrotePath[n + 1]
                    kept == IF IsMapping(old, heap) /\ Truthy(old, heap)
                            THEN DOMAIN Ent(old, heap) \ {key} ELSE {}
                IN /\ IsMapping(new, heap)
                   /\ new.a > call1.pre
                   /\ DOMAIN Ent(new, heap) = kept \cup {key}
                   /\ \A k \in kept : Ent(new, heap)[k] = Ent(old, heap)[k]

\* a write below "a" while "b" holds a dict, which the result shares
C2_Witness ==
    /\ Wrote /\ ~IsErr(call1.out)
    /\ WrotePath[1] = PyStr("a") /\ Len(WrotePath) = 2
    /\ At(snap, <<PyStr("a")>>).t = "dict"
    /\ At(snap, <<PyStr("b")>>).t = "dict"
    /\ Ent(call1.out, heap)[PyStr("b")] = Ent(root, heap)[PyStr("b")]

Updated == call1.op = "update" /\ call1.value = Identity

TwoWrites(p1, v1, p2, v2) ==
    LET r == setitem(p2, v2, root, heap)
    IN IF IsErr(r.val) THEN r ELSE setitem(p1, v1, r.val, r.heap)
ContentOf(r) == Deep(r.val, r.heap)

\* C4: two writes at disjoint paths (neither a prefix of the other) commute:
\* both orders raise, or both return mappings with the same content.
C4_WritesCommute ==
    /\ Wrote /\ call2.op = "setitem" /\ Disjoint(WrotePath, PathOf(call2.path)) =>
         Deep(call2.out, heap)
           = ContentOf(TwoWrites(call1.path, call1.value, call2.path, call2.value))
    /\ Wrote /\ IsErr(call1.out) =>
         \A p \in PathArgs, v \in Values :
            Disjoint(WrotePath, PathOf(p)) =>
               ContentOf(TwoWrites(call1.path, call1.value, p, v)) = call1.out

\* two writes below the same key of a nested dict
C4_Witness ==
    /\ Wrote /\ call2.op = "setitem" /\ ~IsErr(call2.out)
    /\ WrotePath = <<PyStr("a"), PyStr("a")>>
    /\ PathOf(call2.path) = <<PyStr("a"), PyStr("b")>>
    /\ At(snap, <<PyStr("a")>>).t = "dict"
    /\ call1.value # call2.value

Deleted == Wrote /\ call2.op = "delitem"
Parent == Prefix(WrotePath, Len(WrotePath) - 1)
Last == WrotePath[Len(WrotePath)]
ReadsAgree(ks) ==
    LET a == getitem(PySeq(ks), call2.out, heap)
        b == getitem(PySeq(ks), root, heap)
    IN ~IsErr(a) /\ ~IsErr(b) /\ Deep(a, heap) = Deep(b, heap)

LastRemoved ==
    /\ ~IsErr(call2.out)
    /\ IsMapping(ObjAt(call2.out, Parent, heap), heap)
    /\ Last \notin DOMAIN Ent(ObjAt(call2.out, Parent, heap), heap)

\* the keys beside the last key of P in its parent in M
Siblings ==
    IF At(snap, Parent).t = "dict" THEN DOMAIN At(snap, Parent).ent \ {Last} ELSE {}

\* C5: for every P, V and M, delitem(P, setitem(P, V, M)) returns a mapping
\* with no last key of P in its parent, and getitem of the parent path
\* followed by any other key K gives on the result what it gives on M.
C5_DeleteAfterSet ==
    /\ Wrote => ~IsErr(call1.out)
    /\ Deleted => LastRemoved /\ \A k \in Keys \ {Last} : ReadsAgree(Parent \o <<k>>)

\* where C5 fails: setitem(["a", "b"], None, {"a": 1}) raises TypeError and
\* leaves nothing to delete from
C5_NothingToDelete ==
    /\ Wrote /\ call2 = NoCall
    /\ snap = [t |-> "dict", ent |-> [k \in {PyStr("a")} |-> PyInt(1)]]
    /\ WrotePath = <<PyStr("a"), PyStr("b")>>
    /\ call1.value = None
    /\ call1.out = Raised("TypeError")

\* where C5 holds: whenever setitem returns, the result of delitem has no
\* last key of P in its parent, that parent has exactly the sibling keys it
\* has in M, and every sibling reads the same on the result and on M; a key
\* K that is no sibling reads None on both, unless an intermediate key is
\* mapped in M to 0 or "" (getitem raises AttributeError on M).
C5_DeleteAfterSetWritable ==
    /\ Wrote /\ Writable(snap, WrotePath) => ~IsErr(call1.out)
    /\ Deleted =>
         /\ LastRemoved
         /\ DOMAIN Ent(ObjAt(call2.out, Parent, heap), heap) = Siblings
         /\ \A k \in Siblings : ReadsAgree(Parent \o <<k>>)
         /\ Walkable(snap, WrotePath) =>
               \A k \in Keys \ {Last} : ReadsAgree(Parent \o <<k>>)

Got == call1.op = "getitem"
GotPath == PathOf(call1.path)

\* C6: getitem returns None as soon as a key of the path is absent from the
\* mapping reached so far (or the value reached is None), however many keys
\* remain, and never raises there; when every key is present it returns
\* the value at the path.
C6_GetMissing ==
    /\ Got /\ (\E n \in 1..Len(GotPath) :
                  \/ /\ At(snap, Prefix(GotPath, n - 1)).t = "dict"
                     /\ GotPath[n] \notin DOMAIN At(snap, Prefix(GotPath, n - 1)).ent
                  \/ At(snap, Prefix(GotPath, n - 1)) = None)
         => call1.out = None
    /\ Got /\ At(snap, GotPath) # Absent => Deep(call1.out, heap) = At(snap, GotPath)

\* a read of two keys whose first is absent
C6_Witness ==
    /\ Got /\ Len(GotPath) = 2
    /\ GotPath[1] \notin DOMAIN snap.ent
    /\ snap.ent # EmptyEnt
    /\ call1.out = None

Removed == call1.op = "delitem"
RemovedPath == PathOf(call1.path)
ParentFound == At(snap, Prefix(RemovedPath, Len(RemovedPath) - 1)).t = "dict"

\* C7, with KeyError throughout: delitem raises the missing-key error
\* (KeyError) whenever the final key is absent from its parent, an absent
\* intermediate key included, and leaves its input unchanged.
C7_DeleteMissingKeyError ==
    Removed /\ At(snap, RemovedPath) = Absent =>
        call1.out = Raised("KeyError") /\ Deep(root, heap) = snap

\* C7: when the final key is absent delitem raises and never
\* returns a mapping: KeyError when the parent of the final key is a
\* mapping, TypeError when an intermediate key is absent or mapped to a
\* value that is no mapping; the input is unchanged.
C7_DeleteMissing ==
    Removed /\ At(snap, RemovedPath) = Absent =>
        /\ call1.out = (IF ParentFound THEN Raised("KeyError") ELSE Raised("TypeError"))
        /\ Deep(root, heap) = snap

\* a delete of a key absent from a nested dict that is there
C7_Witness ==
    /\ Removed /\ Len(RemovedPath) = 2
    /\ ParentFound
    /\ At(snap, RemovedPath) = Absent
    /\ call1.out = Raised("KeyError")

---------------------------------------------------------------------------
(* ftools/mapping.py *)

\* The classes of mapping the callers pass: the built-in dict, OrderedDict,
\* a class whose constructor needs an argument (Record), and a class that
\* cannot be shallow-copied (Locked: copy raises TypeError).
Classes == {"dict", "OrderedDict", "Record", "Locked"}
HasEmptyCtor(cls) == cls \in {"dict", "OrderedDict", "Locked"}
Copyable(cls) == cls \in {"dict", "OrderedDict", "Record"}

ClassOf(v, h) == h[v.a].cls

\* {} in place of type(mapping)()
create_empty_dict(mapping, h) == Alloc(h, EmptyObj("dict"))

\* type(mapping)()

create_empty(mapping, h) ==
    IF HasEmptyCtor(ClassOf(mapping, h))
    THEN Alloc(h, EmptyObj(ClassOf(mapping, h)))
    ELSE Result(h, Raised("TypeError"))

\* for item in _items: next_mapping[item] = mapping.get(item)
RECURSIVE PickLoop(_, _, _, _)
PickLoop(items, mapping, next, h) ==
    IF items = <<>> THEN h
    ELSE PickLoop(Tail(items), mapping, next,
                  [h EXCEPT ![next.a] = SetKey(@, Head(items), Get(mapping, Head(items), h))])

pick(items, mapping, h) ==
    LET e == create_empty(mapping, h)
    IN IF IsErr(e.val) THEN e
       ELSE Result(PickLoop(items, mapping, e.val, e.heap), e.val)

\* A predicate is the set of the arguments it returns True for.
\* for key in mapping: value = mapping[key]; if predicate(value): ...
RECURSIVE PickByValueLoop(_, _, _, _, _)
PickByValueLoop(keys, predicate, mapping, next, h) ==
    IF keys = <<>> THEN h
    ELSE LET key == Head(keys)
             value == Ent(mapping, h)[key]
         IN PickByValueLoop(Tail(keys), predicate, mapping, next,
                IF value \in predicate THEN [h EXCEPT ![next.a] = SetKey(@, key, value)]
                ELSE h)

pick_by_value(predicate, mapping, h) ==
    LET e == create_empty(mapping, h)
    IN IF IsErr(e.val) THEN e
       ELSE Result(PickByValueLoop(h[mapping.a].ord, predicate, mapping, e.val, e.heap), e.val)

\* for key in mapping: if predicate(key): next_mapping[key] = mapping[key]
RECURSIVE PickByKeyLoop(_, _, _, _, _)
PickByKeyLoop(keys, predicate, mapping, next, h) ==
    IF keys = <<>> THEN h
    ELSE LET key == Head(keys)
         IN PickByKeyLoop(Tail(keys), predicate, mapping, next,
                IF key \in predicate
                THEN [h EXCEPT ![next.a] = SetKey(@, key, Ent(mapping, h)[key])]
                ELSE h)

pick_by_key(predicate, mapping, h) ==
    LET e == create_empty(mapping, h)
    IN IF IsErr(e.val) THEN e
       ELSE Result(PickByKeyLoop(h[mapping.a].ord, predicate, mapping, e.val, e.heap), e.val)

\* {key: value for key, value in mapping.items() if key not in _items}
omit_new_dictionary(items, mapping, h) ==
    Alloc(h, [cls |-> "dict",
              ent |-> [k \in DOMAIN Ent(mapping, h) \ Elems(items) |-> Ent(mapping, h)[k]],
              ord |-> SelectSeq(h[mapping.a].ord, LAMBDA k : k \notin Elems(items))])

\* for item in _items: try next_mapping.pop(item) except KeyError: continue
RECURSIVE PopLoop(_, _, _)
PopLoop(items, next, h) ==
    IF items = <<>> THEN h
    ELSE PopLoop(Tail(items), next,
                 IF Head(items) \in DOMAIN Ent(next, h)
                 THEN [h EXCEPT ![next.a] = DelKey(@, Head(items))]
                 ELSE h)

\* omit popping from the mapping itself instead of a copy of it
omit_no_copy(items, mapping, h) ==
    IF ~Copyable(ClassOf(mapping, h)) THEN omit_new_dictionary(items, mapping, h)
    ELSE Result(PopLoop(items, mapping, h), mapping)

omit(items, mapping, h) ==
    IF ~Copyable(ClassOf(mapping, h)) THEN omit_new_dictionary(items, mapping, h)
    ELSE LET c == Alloc(h, h[mapping.a])
         IN Result(PopLoop(items, c.val, c.heap), c.val)

\* for key, value in mapping.items(): next_mapping[key] = modifier(value)
RECURSIVE MapValuesLoop(_, _, _, _, _)
MapValuesLoop(keys, modifier, mapping, next, h) ==
    IF keys = <<>> THEN h
    ELSE MapValuesLoop(Tail(keys), modifier, mapping, next,
            [h EXCEPT ![next.a] =
                SetKey(@, Head(keys), Modify(modifier, Ent(mapping, h)[Head(keys)], h).val)])

map_values(modifier, mapping, h) ==
    LET e == create_empty(mapping, h)
    IN IF IsErr(e.val) THEN e
       ELSE Result(MapValuesLoop(h[mapping.a].ord, modifier, mapping, e.val, e.heap), e.val)

\* A key modifier is a function on keys.
\* for key, value in mapping.items(): next_mapping[modifier(key)] = value
RECURSIVE MapKeysLoop(_, _, _, _, _)
MapKeysLoop(keys, modifier, mapping, next, h) ==
    IF keys = <<>> THEN h
    ELSE MapKeysLoop(Tail(keys), modifier, mapping, next,
            [h EXCEPT ![next.a] = SetKey(@, modifier[Head(keys)], Ent(mapping, h)[Head(keys)])])

map_keys(modifier, mapping, h) ==
    LET e == create_empty(mapping, h)
    IN IF IsErr(e.val) THEN e
       ELSE Result(MapKeysLoop(h[mapping.a].ord, modifier, mapping, e.val, e.heap), e.val)

\* getitem of ftools/collection.py: the path lookup of the update engine
collection_getitem(path, mapping, h) == getitem(path, mapping, h)

\* {key: getitem(value, mapping) for key, value in aliases.items()}, the
\* aliases being a sequence of <<name, path>>
RECURSIVE AliasLoop(_, _, _, _)
AliasLoop(aliases, mapping, acc, h) ==
    IF aliases = <<>> THEN acc
    ELSE LET v == collection_getitem(Head(aliases)[2], mapping, h)
         IN IF IsErr(v) THEN v
            ELSE AliasLoop(Tail(aliases), mapping, SetKey(acc, Head(aliases)[1], v), h)

\* {**acc, **obj}
RECURSIVE Unpack(_, _, _)
Unpack(acc, keys, obj) ==
    IF keys = <<>> THEN acc
    ELSE Unpack(SetKey(acc, Head(keys), obj.ent[Head(keys)]), Tail(keys), obj)

\* the function extract(*keys, **aliases) returns, applied to a mapping
extractor(keys, aliases, mapping, h) ==
    LET named == AliasLoop(aliases, mapping, EmptyObj("dict"), h)
    IN IF "t" \in DOMAIN named THEN Result(h, named)
       ELSE LET picked == pick(keys, mapping, h)
            IN IF IsErr(picked.val) THEN picked
               ELSE Alloc(picked.heap,
                          Unpack(named, picked.heap[picked.val.a].ord,
                                 picked.heap[picked.val.a]))

---------------------------------------------------------------------------
(* The caller of mapping.py: a flat mapping of some class and one call.    *)

ItemKeys == Keys \cup {PyStr("c")}
ItemSeqs == UNION {[1..n -> ItemKeys] : n \in 0..MaxItems}

\* the orders a set of keys can have been inserted in
Orders(S) == {o \in [1..Cardinality(S) -> S] : \A k \in S : \E i \in DOMAIN o : o[i] = k}

FlatObjects ==
    {[cls |-> cls, ent |-> e, ord |-> o] :
        cls \in Classes,
        e \in UNION {[S -> Leaves] : S \in SUBSET Keys},
        o \in UNION {Orders(S) : S \in SUBSET Keys}}

AliasArgs == {<<>>} \cup {<<<<PyStr("z"), p>>>> : p \in PathArgs}
                    \cup {<<<<PyStr("a"), p>>>> : p \in Keys}

InitMapping ==
    /\ NoGroupBy
    /\ \E obj \in FlatObjects :
         /\ DOMAIN obj.ent = Elems(obj.ord)
         /\ heap = <<obj>>
         /\ snap = Deep(Ref(1), <<obj>>)
    /\ root = Ref(1)
    /\ call1 = NoCall
    /\ call2 = NoCall

Made(op, a, b, r) ==
    [op |-> op, path |-> a, value |-> b, arg |-> root, pre |-> Len(heap), out |-> r.val]

CallPick(items) ==
    /\ call1 = NoCall
    /\ LET r == pick(items, root, heap)
       IN heap' = r.heap /\ call1' = Made("pick", items, None, r)
    /\ UNCHANGED <<root, snap, call2, gvars>>

CallPickByValue(predicate) ==
    /\ call1 = NoCall
    /\ LET r == pick_by_value(predicate, root, heap)
       IN heap' = r.heap /\ call1' = Made("pick_by_value", <<>>, predicate, r)
    /\ UNCHANGED <<root, snap, call2, gvars>>

CallPickByKey(predicate) ==
    /\ call1 = NoCall
    /\ LET r == pick_by_key(predicate, root, heap)
       IN heap' = r.heap /\ call1' = Made("pick_by_key", <<>>, predicate, r)
    /\ UNCHANGED <<root, snap, call2, gvars>>

CallMapValues(f) ==
    /\ call1 = NoCall
    /\ LET r == map_values(f, root, heap)
       IN heap' = r.heap /\ call1' = Made("map_values", <<>>, f, r)
    /\ UNCHANGED <<root, snap, call2, gvars>>

CallMapKeys(f) ==
    /\ call1 = NoCall
    /\ LET r == map_keys(f, root, heap)
       IN heap' = r.heap /\ call1' = Made("map_keys", <<>>, f, r)
    /\ UNCHANGED <<root, snap, call2, gvars>>

CallExtract(keys, aliases) ==
    /\ call1 = NoCall
    /\ LET r == extractor(keys, aliases, root, heap)
       IN heap' = r.heap /\ call1' = Made("extract", keys, aliases, r)
    /\ UNCHANGED <<root, snap, call2, gvars>>

CallOmit(items) ==
    /\ call1 = NoCall
    /\ LET r == omit(items, root, heap)
       IN heap' = r.heap /\ call1' = Made("omit", items, None, r)
    /\ UNCHANGED <<root, snap, call2, gvars>>

NextMapping ==
    \/ \E items \in ItemSeqs : CallPick(items)
    \/ \E pr \in SUBSET Leaves : CallPickByValue(pr)
    \/ \E pr \in SUBSET Keys : CallPickByKey(pr)
    \/ \E f \in {Identity, Const} : CallMapValues(f)
    \/ \E f \in [Keys -> Keys] : CallMapKeys(f)
    \/ \E keys \in ItemSeqs, al \in AliasArgs : CallExtract(keys, al)
    \/ \E items \in ItemSeqs : CallOmit(items)

SpecMapping == InitMapping /\ [][NextMapping]_vars

---------------------------------------------------------------------------
(* Properties of mapping.py *)

T == ClassOf(root, heap)
Transforms == {"pick", "pick_by_value", "pick_by_key", "map_values", "map_keys"}

\* the entries each transform is to produce, from the content of its input
Modified(f, v) == IF f = Identity THEN v ELSE PyInt(1)
\* the key of the input that is iterated last among those f sends to k
LastSource(f, k) ==
    LET ord == heap[root.a].ord
        last == CHOOSE i \in DOMAIN ord :
                    f[ord[i]] = k /\ \A j \in DOMAIN ord : f[ord[j]] = k => j <= i
    IN ord[last]
Expected ==
    CASE call1.op = "pick" ->
           [k \in Elems(call1.path) |-> IF k \in DOMAIN snap.ent THEN snap.ent[k] ELSE None]
      [] call1.op = "pick_by_value" ->
           [k \in {x \in DOMAIN snap.ent : snap.ent[x] \in call1.value} |-> snap.ent[k]]
      [] call1.op = "pick_by_key" ->
           [k \in DOMAIN snap.ent \cap call1.value |-> snap.ent[k]]
      [] call1.op = "map_values" ->
           [k \in DOMAIN snap.ent |-> Modified(call1.value, snap.ent[k])]
      [] call1.op = "map_keys" ->
           [k \in {call1.value[x] : x \in DOMAIN snap.ent} |->
               snap.ent[LastSource(call1.value, k)]]
      [] call1.op = "extract" ->
           [k \in Elems(call1.path) \cup {call1.value[i][1] : i \in DOMAIN call1.value} |->
               IF k \in Elems(call1.path)
               THEN (IF k \in DOMAIN snap.ent THEN snap.ent[k] ELSE None)
               ELSE LET al == CHOOSE i \in DOMAIN call1.value : call1.value[i][1] = k
                        v == At(snap, PathOf(call1.value[al][2]))
                    IN IF v = Absent THEN None ELSE v]

Returned(cls) ==
    /\ ~IsErr(call1.out)
    /\ ClassOf(call1.out, heap) = cls
    /\ Ent(call1.out, heap) = Expected

\* no alias of extract names a path through a value that has no get
AliasesFound ==
    call1.op = "extract" =>
        \A i \in DOMAIN call1.value :
            LET ks == PathOf(call1.value[i][2])
            IN \A n \in 1..Len(ks) : At(snap, Prefix(ks, n - 1)).t \in {"dict", "absent", "none"}

Kept == [k \in DOMAIN snap.ent \ Elems(call1.path) |-> snap.ent[k]]

\* C9: omit returns a mapping with exactly the entries of its input whose
\* key is not among the given keys, keys that are absent or repeated being
\* ignored, and leaves its input unchanged; the copy-then-remove path, the
\* new-dictionary path and omit of dictionary.py give the same entries.
C9_Omit ==
    call1.op = "omit" =>
        /\ ~IsErr(call1.out)
        /\ call1.out.a > call1.pre
        /\ ClassOf(call1.out, heap) = (IF Copyable(T) THEN T ELSE "dict")
        /\ Ent(call1.out, heap) = Kept
        /\ Deep(root, heap) = snap
        /\ heap[root.a].cls = T
        /\ ContentOf(omit_new_dictionary(call1.path, root, heap)) = Deep(call1.out, heap)
        /\ ContentOf(dictionary_omit(call1.path, root, heap)) = Deep(call1.out, heap)

\* omit, by the copy, of a key that is there, one that is not, and a repeat
C9_Witness ==
    /\ call1.op = "omit"
    /\ Copyable(T) /\ T # "dict"
    /\ call1.path = <<PyStr("a"), PyStr("c")>>
    /\ DOMAIN snap.ent = Keys
    /\ DOMAIN Ent(call1.out, heap) = {PyStr("b")}

---------------------------------------------------------------------------
(* fptools/iterable.py: group_by, one step of its reduce at a time *)

\* accumulate(groups, item)
accumulate(g, item, key, h) ==
    IF ~Truthy(key, h) THEN Result(h, g)
    ELSE update(key, AddTo(item), g, h)

Pool == {PyInt(1), PyInt(2), PyInt(3)}
GroupKeys == {None, PyInt(0), PyStr(""), PyStr("a"), PyInt(7)}

\* reduce(accumulate, iterable, {}) starts from a new empty dict
InitGroupBy ==
    /\ iterable \in UNION {[1..n -> Pool] : n \in 0..MaxLen}
    /\ keyOf \in [Pool -> GroupKeys]
    /\ pos = 1
    /\ heap = <<EmptyObj("dict")>>
    /\ groups = Ref(1)
    /\ past = <<[acc |-> Ref(1), content |-> [t |-> "dict", ent |-> EmptyEnt]]>>
    /\ root = None /\ snap = None /\ call1 = NoCall /\ call2 = NoCall

Accumulate ==
    /\ pos \in 1..Len(iterable)
    /\ ~IsErr(groups)
    /\ LET r == accumulate(groups, iterable[pos], keyOf[iterable[pos]], heap)
       IN /\ heap' = r.heap
          /\ groups' = r.val
          /\ past' = Append(past, [acc |-> r.val, content |-> Deep(r.val, r.heap)])
    /\ pos' = pos + 1
    /\ UNCHANGED <<iterable, keyOf, cvars>>

NextGroupBy == Accumulate

SpecGroupBy == InitGroupBy /\ [][NextGroupBy]_vars

\* the items reduce has consumed
Consumed == SubSeq(iterable, 1, pos - 1)
KeysSeen == {keyOf[iterable[i]] : i \in 1..(pos - 1)}
TruthyKey(k) == k \notin {None, PyInt(0), PyStr("")}
GroupOf(k) == SelectSeq(Consumed, LAMBDA x : keyOf[x] = k)

\* C10: after every step of group_by the accumulator maps exactly the
\* truthy keys met so far, each to the list of the items of that key in
\* the order they came (an item of a falsy key is in no list), and no
\* accumulator or list of an earlier step has been changed.
C10_GroupBy ==
    /\ IsMapping(groups, heap) /\ ClassOf(groups, heap) = "dict"
    /\ DOMAIN Ent(groups, heap) = {k \in KeysSeen : TruthyKey(k)}
    /\ \A k \in DOMAIN Ent(groups, heap) :
          /\ IsList(Ent(groups, heap)[k], heap)
          /\ heap[Ent(groups, heap)[k].a].el = GroupOf(k)
    /\ \A i \in DOMAIN past : Deep(past[i].acc, heap) = past[i].content

\* three items consumed: two of one key in one list, one of a falsy key
C10_Witness ==
    /\ pos = 4
    /\ keyOf[iterable[1]] = PyStr("a") /\ keyOf[iterable[2]] = PyInt(0)
    /\ keyOf[iterable[3]] = PyStr("a") /\ iterable[1] # iterable[3]
    /\ heap[Ent(groups, heap)[PyStr("a")].a].el = <<iterable[1], iterable[3]>>

=============================================================================
